---- MODULE Spec2Model ----
(***************************************************************************)
(* A model of TemplateProcessor (src/src/template.processor.ts): the       *)
(* processor's fields, setTemplateParameters, run (its guards, the walk of  *)
(* mapExprList from the last record to the first, the final strip of the    *)
(* declared-iteration markers) and the static evaluateBoolean.              *)
(*                                                                          *)
(* Text is a sequence of one-character strings, so that startIndex and      *)
(* endIndex are real character offsets.  The classes the processor uses but *)
(* whose source is not part of src/ (TemplateContainer, MappedExpression,   *)
(* DeclaredIteration, the two function processors, StringContainer) are     *)
(* modelled at the interface run() uses.                                    *)
(***************************************************************************)
EXTENDS Integers, Sequences, FiniteSets, TLC

VARIABLES
    atmplContainer,      \* this.atmplContainer: the parsed template
    templateParameters,  \* this.templateParameters: [isNull, vals]
    pc,                  \* "idle" | "loop" (inside run's for loop) | "done" (run returned or threw)
    map,                 \* run's argument
    index,               \* run's loop variable
    workingResult,       \* run's local StringContainer
    result,              \* what the last run gave its caller: [kind, text, error]
    warnings,            \* console.warn calls of the current run: <<index of the record>>
    replaced,            \* replaceRange calls of the current run: <<[index, value]>>
    invoked,             \* tmplFunctionsProcessor.invoke calls of the current run: <<[index, name]>>
    parsed,              \* history: the container as the constructor left it
    paramsSupplied,      \* history: setTemplateParameters was called with a parameter set
    firstRun,            \* history: inputs and outcome of the first finished run ("off" = not recorded)
    evalResult,          \* what the last evaluateBoolean call gave: [expression, map, kind, value]
    undefinedText        \* what this build's replaceRange writes when handed undefined

vars == <<atmplContainer, templateParameters, pc, map, index, workingResult, result,
          warnings, replaced, invoked, parsed, paramsSupplied, firstRun, evalResult,
          undefinedText>>

runVars == <<atmplContainer, templateParameters, pc, map, index, workingResult, result,
             warnings, replaced, invoked, parsed, paramsSupplied, firstRun, undefinedText>>

----------------------------------------------------------------------------
(* Bounds of the model *)

\* length of the template text of the offset family of containers
TextLen == 5

----------------------------------------------------------------------------
(* Strings *)

\* the text a record's range holds
Slice(text, startIndex, endIndex) == SubSeq(text, startIndex + 1, endIndex)

\* StringContainer.replaceRange(start, end, replacement)
replaceRange(text, startIndex, endIndex, replacement) ==
    SubSeq(text, 1, startIndex) \o replacement \o SubSeq(text, endIndex + 1, Len(text))

\* the one character that stands for a declared-iteration marker sequence
IterDecMarker == "@"

\* StringContainer.replace(iterDecRegex, ""): every declared-iteration marker goes
RECURSIVE stripIterDec(_)
stripIterDec(text) ==
    IF text = <<>> THEN <<>>
    ELSE IF Head(text) = IterDecMarker THEN stripIterDec(Tail(text))
    ELSE <<Head(text)>> \o stripIterDec(Tail(text))

\* String.prototype.toLowerCase on the characters the model uses
toLowerCaseChar(c) ==
    CASE c = "T" -> "t" [] c = "R" -> "r" [] c = "U" -> "u" [] c = "E" -> "e"
      [] OTHER -> c

toLowerCase(s) == [i \in 1..Len(s) |-> toLowerCaseChar(s[i])]

----------------------------------------------------------------------------
(* The function processors *)

\* PepitoFunctions.doSomething, the @PipeFunction of the test driver
doSomething(str) == str \o <<"A", "S", "D", "F", "!", "!", "!">>

\* PepitoFunctions.doOther, the @TemplateFunction of the test driver
doOther == <<"L", "A", "L", "A", "L", "A">>

\* the registered pipe and template function names; any other name is unresolved
PipeFunctionNames == {"doSomething"}
TemplateFunctionNames == {"doOther"}

\* PipeFunctionsProcessor.invoke(names, value): [threw, value]; an unresolved
\* name throws, otherwise each transform consumes the previous one's output
RECURSIVE pipeInvoke(_, _)
pipeInvoke(names, value) ==
    IF names = <<>> THEN [threw |-> FALSE, value |-> value]
    ELSE IF Head(names) \notin PipeFunctionNames THEN [threw |-> TRUE, value |-> <<>>]
    ELSE pipeInvoke(Tail(names), doSomething(value))

\* TemplateFunctionsProcessor.invoke(name): [threw, value]
tmplInvoke(name) ==
    IF name \in TemplateFunctionNames THEN [threw |-> FALSE, value |-> doOther]
    ELSE [threw |-> TRUE, value |-> <<>>]

----------------------------------------------------------------------------
(* The inputs: expression records, containers, data maps, parameter sets *)

Keys == {"k1", "k2"}

\* a MappedExpression as run reads it; an undeclared ternaryFalse is the empty
\* string (line 117 tests its truthiness only)
MappedExpression(key, optional, ternary, tTrue, tFalse, pipes, iterated, parameterized) ==
    [mappedKey |-> key, isOptional |-> optional, isTernary |-> ternary,
     ternaryTrue |-> tTrue, ternaryFalse |-> tFalse, pipeFunctions |-> pipes,
     isIterated |-> iterated, isParameterized |-> parameterized,
     startIndex |-> 0, endIndex |-> 0]

PipeChains == {<<>>, <<"doSomething">>, <<"doSomething", "doSomething">>, <<"missing">>}

\* plain mapped expressions: ::k1::, optional or not, ternary or not, piped or not
PlainShapes ==
    { MappedExpression("k1", o, t[1], t[2], t[3], p, FALSE, FALSE) :
        o \in BOOLEAN,
        t \in {<<FALSE, <<>>, <<>>>>, <<TRUE, <<"Y">>, <<"N">>>>, <<TRUE, <<"Y">>, <<>>>>},
        p \in PipeChains }

\* parameterized expressions (k2 is a name no parameter set holds)
ParameterizedShapes ==
    { MappedExpression(k, FALSE, FALSE, <<>>, <<>>, <<>>, FALSE, TRUE) : k \in Keys }

\* iterated expressions, bare and with every other setting switched on
IteratedShapes ==
    { MappedExpression("k1", FALSE, FALSE, <<>>, <<>>, <<>>, TRUE, FALSE),
      MappedExpression("k1", TRUE, TRUE, <<"Y">>, <<"N">>, <<"doSomething">>, TRUE, FALSE) }

Shapes == PlainShapes \cup ParameterizedShapes \cup IteratedShapes

\* the first record of a two-record template
LeadShapes ==
    { MappedExpression("k2", FALSE, FALSE, <<>>, <<>>, <<>>, FALSE, FALSE),
      MappedExpression("k1", FALSE, FALSE, <<>>, <<>>, <<>>, FALSE, TRUE),
      MappedExpression("k1", FALSE, FALSE, <<>>, <<>>, <<>>, TRUE, FALSE) }

\* DeclaredIteration lists: none, one, the same key declared twice, an
\* unregistered function, a declaration for another key
DeclaredIteration(key, function) == [mappedKey |-> key, mappedFunction |-> function]

IterDecLists ==
    { <<>>,
      <<DeclaredIteration("k1", "doOther")>>,
      <<DeclaredIteration("k1", "doOther"), DeclaredIteration("k1", "doOther")>>,
      <<DeclaredIteration("k1", "missing")>>,
      <<DeclaredIteration("k2", "doOther")>> }

\* one marker per declared iteration, at the head of the text
RECURSIVE Markers(_)
Markers(n) == IF n = 0 THEN <<>> ELSE <<IterDecMarker>> \o Markers(n - 1)

\* the records with their ranges, shifted by the markers before them
Place(shapes, ranges, shift) ==
    [i \in 1..Len(shapes) |->
        [shapes[i] EXCEPT !.startIndex = ranges[i][1] + shift,
                          !.endIndex = ranges[i][2] + shift]]

TemplateContainer(body, shapes, ranges, iterDecs, isInvalid, isSkip, optionalByDefault) ==
    [fileContents |-> Markers(Len(iterDecs)) \o body,
     mapExprList |-> Place(shapes, ranges, Len(iterDecs)),
     iterDecList |-> iterDecs,
     invalid |-> isInvalid, skip |-> isSkip,
     optionalityByDefault |-> optionalByDefault]

OneExprBody == <<"a", "<", "1", ">", "b">>
TwoExprBody == <<"a", "<", "1", ">", "b", "<", "2", ">", "c">>
NoExprBody == <<"a", "b", "c">>

\* the containers of the main specification: every record shape in a fixed layout
OneExprContainers ==
    { TemplateContainer(OneExprBody, <<s>>, << <<1, 4>> >>, d, FALSE, FALSE, obd) :
        s \in Shapes, d \in IterDecLists, obd \in BOOLEAN }

TwoExprContainers ==
    { TemplateContainer(TwoExprBody, <<l, s>>, << <<1, 4>>, <<5, 8>> >>, d, FALSE, FALSE, FALSE) :
        l \in LeadShapes, s \in Shapes,
        d \in {<<>>, <<DeclaredIteration("k1", "doOther")>>} }

\* a template without expressions is skipped; a parse failure leaves invalid set,
\* with the records found before it
SkipContainers ==
    { TemplateContainer(NoExprBody, <<>>, <<>>, <<>>, inv, TRUE, FALSE) : inv \in BOOLEAN }

InvalidContainers ==
    { TemplateContainer(OneExprBody, <<s>>, << <<1, 4>> >>, <<>>, TRUE, FALSE, FALSE) :
        s \in LeadShapes }

Containers ==
    OneExprContainers \cup TwoExprContainers \cup SkipContainers \cup InvalidContainers

\* data maps: each key absent, mapped to "" or mapped to "vw"
MapValues == {<<>>, <<"v", "w">>}
Maps == UNION { [D -> MapValues] : D \in SUBSET Keys }

\* what setTemplateParameters may be given: null, {} or {k1: "p"}
NullParameters == [isNull |-> TRUE, vals |-> <<>>]
ParameterSets == { [isNull |-> FALSE, vals |-> f] : f \in UNION { [D -> {<<"p">>}] : D \in SUBSET {"k1"} } }
ParameterArgs == {NullParameters} \cup ParameterSets

NoResult == [kind |-> "none", text |-> <<>>, error |-> ""]
TextResult(t) == [kind |-> "text", text |-> t, error |-> ""]
ErrorResult(e) == [kind |-> "error", text |-> <<>>, error |-> e]
NoEval == [expression |-> <<>>, map |-> <<>>, kind |-> "none", value |-> FALSE]

----------------------------------------------------------------------------
(* run: the guards *)

\* runGuard with the empty map tested first
runGuardEmptyFirst(container, m) ==
    IF Cardinality(DOMAIN m) = 0 THEN "empty"
    ELSE IF container.skip THEN "skip"
    ELSE IF container.invalid THEN "invalid"
    ELSE "ok"

\* runGuard without the test of the map's size
runGuardNoEmptyTest(container, m) ==
    IF container.skip THEN "skip"
    ELSE IF container.invalid THEN "invalid"
    ELSE "ok"

\* lines 87-95: skip, then invalid, then the empty map
runGuard(container, m) ==
    IF container.skip THEN "skip"
    ELSE IF container.invalid THEN "invalid"
    ELSE IF Cardinality(DOMAIN m) = 0 THEN "empty"
    ELSE "ok"

\* line 97: the loop starts at the last record ...
firstIndex(mapExprList) == Len(mapExprList) - 1

\* ... and steps down
nextIndex(i) == i - 1

\* recordAt walking the list from its first record to its last
recordAtAscending(mapExprList, i) == mapExprList[Len(mapExprList) - i]

\* line 98: mapExprList[index]
recordAt(mapExprList, i) == mapExprList[i + 1]

\* line 96: the working copy is a new StringContainer over the container's text
workingCopy(container) == container.fileContents

\* storedContents with run working on the container's own buffer
storedContentsShared(container, working) == working

\* what run leaves in the container's fileContents: nothing is written back
storedContents(container, working) == container.fileContents

----------------------------------------------------------------------------
(* run: how one record is resolved *)

\* lines 136-145: forEach over iterDecList; every declaration of the key invokes
\* its function (the return statement only ends the callback), the last value
\* stays in result; an unresolved function name throws out of the loop
RECURSIVE retrieveValueFromIterDec(_, _, _)
retrieveValueFromIterDec(iterDecList, mappedKey, acc) ==
    IF iterDecList = <<>> THEN acc
    ELSE LET iterDec == Head(iterDecList) IN
         IF iterDec.mappedKey = mappedKey
         THEN LET r == tmplInvoke(iterDec.mappedFunction)
                  calls == Append(acc.calls, iterDec.mappedFunction) IN
              IF r.threw
              THEN [threw |-> TRUE, defined |-> FALSE, value |-> <<>>, calls |-> calls]
              ELSE retrieveValueFromIterDec(Tail(iterDecList), mappedKey,
                       [threw |-> FALSE, defined |-> TRUE, value |-> r.value, calls |-> calls])
         ELSE retrieveValueFromIterDec(Tail(iterDecList), mappedKey, acc)

NoIterValue == [threw |-> FALSE, defined |-> FALSE, value |-> <<>>, calls |-> <<>>]

\* what replaceRange writes when handed undefined: one of these, fixed by the
\* build of StringContainer
UndefinedText == {<<>>, <<"u", "n", "d", "e", "f", "i", "n", "e", "d">>}

\* parameterizedResolve without the test for parameters never set
parameterizedResolveNoNullTest(mapExpr, parameters) ==
    IF mapExpr.mappedKey \notin DOMAIN parameters.vals THEN [op |-> "warn", value |-> <<>>]
    ELSE [op |-> "replace", value |-> parameters.vals[mapExpr.mappedKey]]

\* parameterizedResolve writing the empty string for a parameter it does not find
parameterizedResolveBlank(mapExpr, parameters) ==
    IF parameters.isNull THEN [op |-> "throw", value |-> <<>>]
    ELSE IF mapExpr.mappedKey \notin DOMAIN parameters.vals THEN [op |-> "replace", value |-> <<>>]
    ELSE [op |-> "replace", value |-> parameters.vals[mapExpr.mappedKey]]

\* lines 101-108: [op, value]
parameterizedResolve(mapExpr, parameters) ==
    IF parameters.isNull THEN [op |-> "throw", value |-> <<>>]
    ELSE IF mapExpr.mappedKey \notin DOMAIN parameters.vals THEN [op |-> "warn", value |-> <<>>]
    ELSE [op |-> "replace", value |-> parameters.vals[mapExpr.mappedKey]]

\* ternaryValue with the branches the wrong way round
ternaryValueSwapped(mapExpr, mappedValue) ==
    IF mappedValue = <<>> THEN mapExpr.ternaryTrue
    ELSE IF mapExpr.ternaryFalse # <<>> THEN mapExpr.ternaryFalse
    ELSE <<>>

\* line 117
ternaryValue(mapExpr, mappedValue) ==
    IF mappedValue # <<>> THEN mapExpr.ternaryTrue
    ELSE IF mapExpr.ternaryFalse # <<>> THEN mapExpr.ternaryFalse
    ELSE <<>>

\* absentKey reading the record's own flag only
absentKeyOwnFlagOnly(mapExpr, optionalityByDefault) ==
    IF ~mapExpr.isOptional THEN [op |-> "warn", value |-> <<>>]
    ELSE [op |-> "replace", value |-> <<>>]

\* lines 111-114: what is done for a key the map does not hold
absentKey(mapExpr, optionalityByDefault) ==
    IF ~mapExpr.isOptional /\ ~optionalityByDefault THEN [op |-> "warn", value |-> <<>>]
    ELSE [op |-> "replace", value |-> <<>>]

\* lines 115-123: what is done for a key the map holds
presentKey(mapExpr, mappedValue) ==
    LET afterTernary == IF mapExpr.isTernary THEN ternaryValue(mapExpr, mappedValue)
                        ELSE mappedValue
        piped == IF Len(mapExpr.pipeFunctions) > 0
                 THEN pipeInvoke(mapExpr.pipeFunctions, afterTernary)
                 ELSE [threw |-> FALSE, value |-> afterTernary] IN
    IF piped.threw THEN [op |-> "throw", value |-> <<>>]
    ELSE [op |-> "replace", value |-> piped.value]

\* lines 110-123: [op, value]
plainResolve(mapExpr, m, optionalityByDefault) ==
    IF mapExpr.mappedKey \notin DOMAIN m THEN absentKey(mapExpr, optionalityByDefault)
    ELSE presentKey(mapExpr, m[mapExpr.mappedKey])

----------------------------------------------------------------------------
(* The operations *)

InitOn(containers, recording, builds) ==
    /\ atmplContainer \in containers
    /\ parsed = atmplContainer
    /\ templateParameters = NullParameters
    /\ pc = "idle"
    /\ map = <<>>
    /\ index = -1
    /\ workingResult = <<>>
    /\ result = NoResult
    /\ warnings = <<>>
    /\ replaced = <<>>
    /\ invoked = <<>>
    /\ paramsSupplied = FALSE
    /\ firstRun = [state |-> recording, map |-> <<>>, parameters |-> NullParameters,
                   result |-> NoResult]
    /\ evalResult = NoEval
    /\ undefinedText \in builds

\* run, called with m, returns or throws: its caller gets res
Return(res, m) ==
    /\ pc' = "done"
    /\ result' = res
    /\ firstRun' = IF firstRun.state = "none"
                   THEN [state |-> "set", map |-> m, parameters |-> templateParameters,
                         result |-> res]
                   ELSE firstRun

\* the loop goes on to the next record
Continue ==
    /\ pc' = "loop"
    /\ index' = nextIndex(index)
    /\ UNCHANGED <<result, firstRun>>

\* the processor's fields after any step of run
Fields(working) ==
    /\ atmplContainer' = [atmplContainer EXCEPT !.fileContents = storedContents(atmplContainer, working)]
    /\ UNCHANGED <<templateParameters, parsed, paramsSupplied, evalResult, undefinedText>>

\* lines 73-75
setTemplateParameters(parameters) ==
    /\ pc \in {"idle", "done"}
    /\ templateParameters' = parameters
    /\ paramsSupplied' = (paramsSupplied \/ ~parameters.isNull)
    /\ pc' = "idle"
    /\ map' = <<>>
    /\ index' = -1
    /\ workingResult' = <<>>
    /\ result' = NoResult
    /\ warnings' = <<>>
    /\ replaced' = <<>>
    /\ invoked' = <<>>
    /\ UNCHANGED <<atmplContainer, parsed, firstRun, evalResult, undefinedText>>

\* lines 86-97: the call, its guards, the working copy
run(m) ==
    /\ pc \in {"idle", "done"}
    /\ map' = m
    /\ warnings' = <<>>
    /\ replaced' = <<>>
    /\ invoked' = <<>>
    /\ LET guard == runGuard(atmplContainer, m) IN
       IF guard = "skip"
       THEN /\ Return(TextResult(atmplContainer.fileContents), m)
            /\ UNCHANGED <<index, workingResult>>
            /\ Fields(atmplContainer.fileContents)
       ELSE IF guard = "invalid"
       THEN /\ Return(ErrorResult("config"), m)
            /\ UNCHANGED <<index, workingResult>>
            /\ Fields(atmplContainer.fileContents)
       ELSE IF guard = "empty"
       THEN /\ Return(ErrorResult("input"), m)
            /\ UNCHANGED <<index, workingResult>>
            /\ Fields(atmplContainer.fileContents)
       ELSE /\ workingResult' = workingCopy(atmplContainer)
            /\ index' = firstIndex(atmplContainer.mapExprList)
            /\ pc' = "loop"
            /\ result' = NoResult
            /\ UNCHANGED firstRun
            /\ Fields(workingResult')

mapExpr == recordAt(atmplContainer.mapExprList, index)

InLoop == pc = "loop" /\ index > -1

\* lines 99-100: an iterated expression
runIterated ==
    /\ InLoop
    /\ mapExpr.isIterated
    /\ LET r == retrieveValueFromIterDec(atmplContainer.iterDecList, mapExpr.mappedKey, NoIterValue) IN
       /\ invoked' = invoked \o [i \in 1..Len(r.calls) |-> [index |-> index, name |-> r.calls[i]]]
       /\ IF r.threw
          THEN /\ Return(ErrorResult("resolution"), map)
               /\ UNCHANGED <<index, workingResult, replaced>>
          ELSE /\ LET value == IF r.defined THEN r.value ELSE undefinedText IN
                    /\ workingResult' = replaceRange(workingResult, mapExpr.startIndex,
                                                     mapExpr.endIndex, value)
                    /\ replaced' = Append(replaced, [index |-> index, value |-> value])
               /\ Continue
    /\ Fields(workingResult')
    /\ UNCHANGED <<map, warnings>>

\* one record's outcome [op, value] applied: throw, warn or replaceRange
Apply(outcome, error) ==
    /\ IF outcome.op = "throw"
       THEN /\ Return(ErrorResult(error), map)
            /\ UNCHANGED <<index, workingResult, replaced, warnings>>
       ELSE IF outcome.op = "warn"
       THEN /\ warnings' = Append(warnings, index)
            /\ Continue
            /\ UNCHANGED <<workingResult, replaced>>
       ELSE /\ workingResult' = replaceRange(workingResult, mapExpr.startIndex,
                                             mapExpr.endIndex, outcome.value)
            /\ replaced' = Append(replaced, [index |-> index, value |-> outcome.value])
            /\ Continue
            /\ UNCHANGED warnings
    /\ Fields(workingResult')
    /\ UNCHANGED <<map, invoked>>

\* lines 101-108: a parameterized expression
runParameterized ==
    /\ InLoop
    /\ ~mapExpr.isIterated
    /\ mapExpr.isParameterized
    /\ Apply(parameterizedResolve(mapExpr, templateParameters), "state")

\* lines 109-123: a plain mapped expression
runPlain ==
    /\ InLoop
    /\ ~mapExpr.isIterated
    /\ ~mapExpr.isParameterized
    /\ Apply(plainResolve(mapExpr, map, atmplContainer.optionalityByDefault), "resolution")

\* lines 126-129: the loop is over; strip the iteration declarations and return
runReturn ==
    /\ pc = "loop"
    /\ index = -1
    /\ Return(TextResult(stripIterDec(workingResult)), map)
    /\ Fields(workingResult)
    /\ UNCHANGED <<map, index, workingResult, warnings, replaced, invoked>>

Init == InitOn(Containers, "off", UndefinedText)

Next ==
    \/ \E m \in Maps : run(m)
    \/ runIterated
    \/ runParameterized
    \/ runPlain
    \/ runReturn
    \/ \E parameters \in ParameterArgs : setTemplateParameters(parameters)

Spec == Init /\ [][Next]_vars

----------------------------------------------------------------------------
(* The offset family: templates whose records lie at every possible place *)

\* most records of a template of the offset family
MaxExprs == 2

Alphabet == <<"a", "b", "c", "d", "e", "f", "g", "h">>

OffsetBody == SubSeq(Alphabet, 1, TextLen)

\* n ranges [startIndex, endIndex) in a text of TextLen characters: none empty,
\* none overlapping, in ascending order
RangeLists(n) ==
    { r \in [1..n -> (0..TextLen) \X (0..TextLen)] :
        /\ \A i \in 1..n : r[i][1] < r[i][2]
        /\ \A i \in 1..(n - 1) : r[i][2] <= r[i + 1][1] }

OffsetShapes ==
    { MappedExpression("k1", FALSE, FALSE, <<>>, <<>>, <<>>, FALSE, FALSE),
      MappedExpression("k1", FALSE, FALSE, <<>>, <<>>, <<>>, FALSE, TRUE),
      MappedExpression("k1", FALSE, FALSE, <<>>, <<>>, <<>>, TRUE, FALSE) }

OffsetContainers ==
    UNION { { TemplateContainer(OffsetBody, s, r, <<DeclaredIteration("k1", "doOther")>>,
                                FALSE, FALSE, FALSE) :
                s \in [1..n -> OffsetShapes], r \in RangeLists(n) } : n \in 1..MaxExprs }

\* every iterated key of this family has its declaration: undefinedText is never read
InitOffsets == InitOn(OffsetContainers, "off", {<<>>})

SpecOffsets == InitOffsets /\ [][Next]_vars

----------------------------------------------------------------------------
(* Reuse: the first finished run is remembered and later runs compared to it *)

ReuseContainers ==
    { c \in TwoExprContainers :
        /\ Len(c.iterDecList) = 1
        /\ Len(c.mapExprList[2].pipeFunctions) <= 1
        /\ ~c.mapExprList[2].isTernary }

\* every iterated key of this family has its declaration: undefinedText is never read
InitReuse == InitOn(ReuseContainers, "none", {<<>>})

SpecReuse == InitReuse /\ [][Next]_vars

----------------------------------------------------------------------------
(* evaluateBoolean *)

\* standalone expression strings, token by token: ::key::, ::!key::, and
\* strings MappedExpression.regex does not match
Expressions ==
    { <<"::", k, "::">> : k \in Keys } \cup { <<"::", "!", k, "::">> : k \in Keys }
        \cup { <<>>, <<"k1">>, <<"::", "!", "::">> }

\* lines 155-157: mapExpRegex.exec(expression) leaves lastIndex at 0 when
\* nothing matches
regexMatches(expression) ==
    \/ Len(expression) = 3 /\ expression[1] = "::" /\ expression[2] \in Keys
          /\ expression[3] = "::"
    \/ Len(expression) = 4 /\ expression[1] = "::" /\ expression[2] = "!"
          /\ expression[3] \in Keys /\ expression[4] = "::"

\* line 160: new MappedExpression(result), as far as evaluateBoolean reads it
parseExpression(expression) ==
    [mappedKey |-> expression[Len(expression) - 1], isNegated |-> expression[2] = "!"]

EvalValues ==
    { <<>>, <<"1">>, <<"0">>, <<"t", "r", "u", "e">>, <<"T", "R", "U", "E">>,
      <<"T", "r", "u", "e">>, <<"f", "a", "l", "s", "e">> }

EvalMaps == UNION { [D -> EvalValues] : D \in SUBSET Keys }

\* line 164: value.toLowerCase() == "true" || value.toLowerCase() == "1"
isTrueText(value) ==
    toLowerCase(value) = <<"t", "r", "u", "e">> \/ toLowerCase(value) = <<"1">>

\* lines 154-169: [kind, value]; line 162 tests the truthiness of the value
evaluateBooleanResult(expression, m) ==
    IF ~regexMatches(expression) THEN [kind |-> "error", value |-> FALSE]
    ELSE LET expr == parseExpression(expression) IN
         IF expr.mappedKey \in DOMAIN m /\ m[expr.mappedKey] # <<>>
         THEN [kind |-> "value",
               value |-> IF expr.isNegated THEN ~isTrueText(m[expr.mappedKey])
                         ELSE isTrueText(m[expr.mappedKey])]
         ELSE [kind |-> "value", value |-> FALSE]

evaluateBoolean(expression, m) ==
    /\ evalResult' = [expression |-> expression, map |-> m,
                      kind |-> evaluateBooleanResult(expression, m).kind,
                      value |-> evaluateBooleanResult(expression, m).value]
    /\ UNCHANGED runVars

InitEval == InitOn({TemplateContainer(NoExprBody, <<>>, <<>>, <<>>, FALSE, TRUE, FALSE)}, "off", {<<>>})

NextEval == \E expression \in Expressions, m \in EvalMaps : evaluateBoolean(expression, m)

SpecEval == InitEval /\ [][NextEval]_vars

----------------------------------------------------------------------------
(* What the claims speak of *)

original == atmplContainer.fileContents
exprs == atmplContainer.mapExprList
Indices == 0..(Len(exprs) - 1)
expr(i) == exprs[i + 1]

IsPlain(i) == ~expr(i).isIterated /\ ~expr(i).isParameterized
IsParameterized(i) == ~expr(i).isIterated /\ expr(i).isParameterized
IsIterated(i) == expr(i).isIterated

\* the three guards of run let this call through to the walk
GuardsPassed ==
    ~atmplContainer.skip /\ ~atmplContainer.invalid /\ DOMAIN map # {}

\* the walk is under way or over, and has gone past record i
Passed(i) == pc \in {"loop", "done"} /\ GuardsPassed /\ i > index

\* the walk stopped at record i with an error
ThrewAt(i) == pc = "done" /\ GuardsPassed /\ result.kind = "error" /\ index = i

Returned == pc = "done" /\ GuardsPassed /\ result.kind = "text"

ReplacedAt(i) == { k \in 1..Len(replaced) : replaced[k].index = i }
WarnedAt(i) == { k \in 1..Len(warnings) : warnings[k] = i }
InvokedAt(i) == { k \in 1..Len(invoked) : invoked[k].index = i }

\* the string that stands in record i's range: the one handed to replaceRange,
\* or the placeholder itself when replaceRange was not called for it
Placeholder(i) == Slice(original, expr(i).startIndex, expr(i).endIndex)
Replacement(i) ==
    IF ReplacedAt(i) = {} THEN Placeholder(i)
    ELSE replaced[CHOOSE k \in ReplacedAt(i) : TRUE].value

\* the original text with the records after index `from` spliced in one pass,
\* left to right: record j (counted from 1) and the text before it, then the rest
RECURSIVE OnePass(_, _, _)
OnePass(j, pos, from) ==
    IF j > Len(exprs) THEN SubSeq(original, pos + 1, Len(original))
    ELSE SubSeq(original, pos + 1, exprs[j].startIndex)
            \o (IF j - 1 > from THEN Replacement(j - 1) ELSE Placeholder(j - 1))
            \o OnePass(j + 1, exprs[j].endIndex, from)

----------------------------------------------------------------------------
(* C1: offset safety *)

\* C1: while run walks the records from the last to the first, the working text
\* equals the original text with the records already walked spliced in one pass,
\* and every record not yet walked still finds its placeholder in its stored
\* range of the working text; the text returned is the one-pass splice of all
\* replacements, stripped of the iteration markers.
OffsetSafety ==
    /\ pc = "loop" =>
          /\ workingResult = OnePass(1, 0, index)
          /\ \A i \in Indices : i <= index =>
                Slice(workingResult, expr(i).startIndex, expr(i).endIndex) = Placeholder(i)
    /\ Returned => result.text = stripIterDec(OnePass(1, 0, -1))

\* two records, both replaced by strings whose lengths differ from their
\* placeholders', and the text returned
OffsetSafetyWitness ==
    /\ Returned
    /\ Len(exprs) = 2
    /\ \A i \in Indices :
          ReplacedAt(i) # {} /\ Len(Replacement(i)) # expr(i).endIndex - expr(i).startIndex
    /\ Len(Replacement(0)) # Len(Replacement(1))

----------------------------------------------------------------------------
(* C9: the order of run's guards *)

NothingWalked == replaced = <<>> /\ warnings = <<>> /\ invoked = <<>>

\* C9: skip is tested first (the text comes back unchanged, whatever invalid and
\* the map are), then invalid (configuration error, even with an empty map),
\* then the empty map (input error); no record is walked before all three pass.
GuardPrecedence ==
    /\ (pc = "done" /\ atmplContainer.skip) =>
          result = TextResult(atmplContainer.fileContents) /\ NothingWalked
    /\ (pc = "done" /\ ~atmplContainer.skip /\ atmplContainer.invalid) =>
          result = ErrorResult("config") /\ NothingWalked
    /\ (pc = "done" /\ ~atmplContainer.skip /\ ~atmplContainer.invalid /\ DOMAIN map = {}) =>
          result = ErrorResult("input") /\ NothingWalked
    /\ (pc = "loop" \/ ~NothingWalked) => GuardsPassed

\* an invalid template run with an empty map: the configuration error
GuardPrecedenceWitness ==
    /\ pc = "done"
    /\ ~atmplContainer.skip /\ atmplContainer.invalid /\ DOMAIN map = {}
    /\ Len(exprs) > 0
    /\ result = ErrorResult("config")

----------------------------------------------------------------------------
(* C4: the empty map *)

\* C4 as claimed: run with an empty map raises the input error and returns no
\* text, for every container
EmptyMapAlwaysInputError ==
    (pc = "done" /\ DOMAIN map = {}) => result = ErrorResult("input")

\* C4 as amended: run with an empty map raises the input error and returns no
\* text for every container that is neither skip nor invalid
EmptyMapInputError ==
    (pc = "done" /\ DOMAIN map = {} /\ ~atmplContainer.skip /\ ~atmplContainer.invalid) =>
        result.kind = "error" /\ result.error = "input" /\ result.text = <<>>

EmptyMapWitness ==
    /\ pc = "done" /\ DOMAIN map = {}
    /\ ~atmplContainer.skip /\ ~atmplContainer.invalid
    /\ result.error = "input"

----------------------------------------------------------------------------
(* C2: a key the map does not hold *)

AbsentPlain(i) == IsPlain(i) /\ expr(i).mappedKey \notin DOMAIN map
Optional(i) == expr(i).isOptional \/ atmplContainer.optionalityByDefault

\* the text of a one-record template with the record's range cut out
RangeRemoved == replaceRange(original, expr(0).startIndex, expr(0).endIndex, <<>>)

\* C2 as claimed: for a plain expression whose key the non-empty map lacks, the
\* range is replaced by the empty string, with exactly one warning when the
\* expression is not optional and none when it is; the text returned is the same
OptionalityAsClaimed ==
    /\ \A i \in Indices : (Passed(i) /\ AbsentPlain(i)) =>
          /\ ReplacedAt(i) # {} /\ Replacement(i) = <<>>
          /\ Cardinality(WarnedAt(i)) = (IF Optional(i) THEN 0 ELSE 1)
    /\ (Returned /\ Len(exprs) = 1 /\ AbsentPlain(0)) =>
          result.text = stripIterDec(RangeRemoved)

\* C2 as amended: when the expression is not optional (neither by its own flag
\* nor by the container's default) run emits exactly one warning and leaves the
\* placeholder in the text; when it is optional run replaces the range by the
\* empty string and emits no warning
Optionality ==
    /\ \A i \in Indices : (Passed(i) /\ AbsentPlain(i)) =>
          IF Optional(i)
          THEN Cardinality(ReplacedAt(i)) = 1 /\ Replacement(i) = <<>> /\ WarnedAt(i) = {}
          ELSE ReplacedAt(i) = {} /\ Cardinality(WarnedAt(i)) = 1
    /\ (Returned /\ Len(exprs) = 1 /\ AbsentPlain(0)) =>
          result.text = stripIterDec(IF Optional(0) THEN RangeRemoved ELSE original)

\* a one-record template, not optional, its key missing from a map that holds
\* another key: one warning, and the placeholder is in the text returned
OptionalityWitness ==
    /\ Returned /\ Len(exprs) = 1 /\ AbsentPlain(0)
    /\ ~Optional(0)
    /\ Cardinality(WarnedAt(0)) = 1
    /\ result.text = OneExprBody

----------------------------------------------------------------------------
(* C8: the ternary form *)

PresentTernary(i) == IsPlain(i) /\ expr(i).isTernary /\ expr(i).mappedKey \in DOMAIN map

\* what the claim says a ternary expression resolves to
TernaryBranch(i) ==
    IF map[expr(i).mappedKey] # <<>> THEN expr(i).ternaryTrue
    ELSE IF expr(i).ternaryFalse # <<>> THEN expr(i).ternaryFalse
    ELSE <<>>

\* C8: for a plain ternary expression whose key the map holds, the string written
\* into its range is the pipe chain applied to ternaryTrue when the mapped value
\* is not empty, to ternaryFalse when it is empty and a false branch is declared,
\* to the empty string when it is empty and none is; the mapped value is not
\* what is written.
TernaryResolution ==
    \A i \in Indices : (Passed(i) /\ PresentTernary(i)) =>
        /\ Cardinality(ReplacedAt(i)) = 1
        /\ Replacement(i) = pipeInvoke(expr(i).pipeFunctions, TernaryBranch(i)).value
        /\ (map[expr(i).mappedKey] # <<>> /\ expr(i).pipeFunctions = <<>>) =>
              Replacement(i) # map[expr(i).mappedKey]

\* an empty mapped value and a declared false branch, which the text returned holds
TernaryWitness ==
    /\ Returned /\ Len(exprs) = 1 /\ PresentTernary(0)
    /\ map[expr(0).mappedKey] = <<>>
    /\ expr(0).ternaryFalse = <<"N">> /\ expr(0).pipeFunctions = <<>>
    /\ result.text = <<"a", "N", "b">>

----------------------------------------------------------------------------
(* C5: parameterized expressions and the parameters *)

HasParameterized == \E i \in Indices : IsParameterized(i)

\* record j stops the walk with a resolution error: an iterated expression
\* whose declaration names an unregistered function, or a plain one whose key
\* the map holds and whose pipe chain names an unregistered function
Unresolved(j) ==
    \/ /\ IsIterated(j)
       /\ \E k \in 1..Len(atmplContainer.iterDecList) :
             /\ atmplContainer.iterDecList[k].mappedKey = expr(j).mappedKey
             /\ atmplContainer.iterDecList[k].mappedFunction \notin TemplateFunctionNames
    \/ /\ IsPlain(j)
       /\ expr(j).mappedKey \in DOMAIN map
       /\ \E k \in 1..Len(expr(j).pipeFunctions) :
             expr(j).pipeFunctions[k] \notin PipeFunctionNames

\* no record of the template can stop the walk with a resolution error
NothingUnresolved == \A j \in Indices : ~Unresolved(j)

\* the walk reaches a parameterized record
ReachesParameterized ==
    \E i \in Indices : IsParameterized(i) /\ \A j \in Indices : j > i => ~Unresolved(j)

\* C5 as claimed, for templates none of whose records can fail otherwise: run
\* raises the state error if and only if no parameter set has been supplied by
\* an earlier setTemplateParameters call
StateErrorIffNeverSupplied ==
    (pc = "done" /\ GuardsPassed /\ HasParameterized /\ NothingUnresolved) =>
        (result = ErrorResult("state") <=> ~paramsSupplied)

\* C5 as amended: run raises the state error, and returns no text, if and only
\* if templateParameters is null or undefined when run is called (never
\* supplied, or last supplied as null) and no record after the last
\* parameterized one has stopped the walk with a resolution error first; a run
\* made while a parameter set is in force never raises it
StateErrorIffNull ==
    (pc = "done" /\ GuardsPassed /\ HasParameterized) =>
        /\ result = ErrorResult("state") <=>
              (templateParameters.isNull /\ ReachesParameterized)
        /\ result.error = "state" => result.kind = "error" /\ result.text = <<>>

\* parameters supplied, then withdrawn, and the run raises the state error
StateErrorWitness ==
    /\ pc = "done" /\ GuardsPassed /\ HasParameterized
    /\ paramsSupplied /\ templateParameters.isNull
    /\ result = ErrorResult("state")

----------------------------------------------------------------------------
(* C6: a parameter the parameter set does not hold *)

MissingParameter(i) ==
    /\ IsParameterized(i)
    /\ ~templateParameters.isNull
    /\ expr(i).mappedKey \notin DOMAIN templateParameters.vals

\* C6 as claimed: run emits one warning, replaces the range by the empty
\* string and goes on
MissingParameterBlanked ==
    \A i \in Indices : MissingParameter(i) =>
        /\ ~ThrewAt(i)
        /\ Passed(i) => Cardinality(WarnedAt(i)) = 1 /\ ReplacedAt(i) # {}
                            /\ Replacement(i) = <<>>

\* C6 as amended: run emits one warning, leaves the range as it is (the
\* placeholder stays in the text) and goes on to the remaining records
MissingParameterWarned ==
    /\ \A i \in Indices : MissingParameter(i) =>
          /\ ~ThrewAt(i)
          /\ Passed(i) => Cardinality(WarnedAt(i)) = 1 /\ ReplacedAt(i) = {}
          /\ (pc = "loop" /\ index = i - 1) =>
                Slice(workingResult, expr(i).startIndex, expr(i).endIndex) = Placeholder(i)
    /\ (Returned /\ Len(exprs) = 1 /\ MissingParameter(0)) =>
          result.text = stripIterDec(original)

\* the missing parameter is the last record of two: warned about, and the first
\* record is then replaced and the text returned
MissingParameterWitness ==
    /\ Returned /\ Len(exprs) = 2
    /\ MissingParameter(1) /\ Cardinality(WarnedAt(1)) = 1
    /\ ReplacedAt(0) # {}
    /\ SubSeq(result.text, Len(result.text) - 3, Len(result.text)) = <<"<", "2", ">", "c">>

----------------------------------------------------------------------------
(* C7: the container after runs *)

\* C7: after any runs, finished or stopped by an error, the container is as the
\* constructor left it, and a run with the data map and parameters of the first
\* finished run gives what that run gave.
ContainerReuse ==
    /\ atmplContainer = parsed
    /\ (pc = "done" /\ firstRun.state = "set" /\ firstRun.map = map
            /\ firstRun.parameters = templateParameters) =>
          result = firstRun.result

\* a run with the inputs of the first finished run, made after a parameter set
\* was supplied and withdrawn again, that replaced a record by a longer string
ContainerReuseWitness ==
    /\ Returned /\ firstRun.state = "set"
    /\ firstRun.map = map /\ firstRun.parameters = templateParameters
    /\ firstRun.result.kind = "text"
    /\ paramsSupplied /\ templateParameters.isNull
    /\ \E i \in Indices : ReplacedAt(i) # {} /\ Len(Replacement(i)) > Len(Placeholder(i))

----------------------------------------------------------------------------
(* C10: iterated expressions *)

Declarations(i) ==
    { k \in 1..Len(atmplContainer.iterDecList) :
        atmplContainer.iterDecList[k].mappedKey = expr(i).mappedKey }

\* C10 as claimed, for an iterated expression whose key has a declaration: the
\* bound template function is invoked once, and what it returns is written
\* into the range
IteratedOnce ==
    \A i \in Indices : (Passed(i) /\ IsIterated(i) /\ Declarations(i) # {}) =>
        /\ Cardinality(InvokedAt(i)) = 1
        /\ Cardinality(ReplacedAt(i)) = 1
        /\ Replacement(i) = doOther

----------------------------------------------------------------------------
(* C3: evaluateBoolean *)

EvalKey == evalResult.expression[Len(evalResult.expression) - 1]
EvalNegated == evalResult.expression[2] = "!"

\* C3 as claimed: with the key in the map, whatever the value, the result is
\* (lower-cased value is "true" or "1"), inverted exactly when the expression is
\* negated; with the key absent the result is false
BooleanEvaluation ==
    evalResult.kind = "value" =>
        IF EvalKey \in DOMAIN evalResult.map
        THEN evalResult.value =
                ((toLowerCase(evalResult.map[EvalKey]) \in {<<"t", "r", "u", "e">>, <<"1">>})
                    # EvalNegated)
        ELSE evalResult.value = FALSE

====
